---------------------------- MODULE Spec2Model ----------------------------
(***************************************************************************)
(* The ingestion-and-normalisation pipeline of the steel-routes dashboard  *)
(* (src/app.py, load_data, lines 253-292) and its call from the script     *)
(* body (line 295).                                                        *)
(*                                                                         *)
(* Text is a sequence of symbols.  A symbol is one character (a digit, the *)
(* blank " ", ",", ";", ".") or an indivisible word that contains none of  *)
(* those characters at its ends ("Brazil", "unknown", "inf", a column      *)
(* name).  The alphabet holds no sign, no exponent letter and no quote, so *)
(* signed numerals, scientific notation and CSV quoting are outside the    *)
(* files modelled.  A file is the sequence of its lines.                   *)
(*                                                                         *)
(* A float is written as a decimal m / 10^e, kept normalised (m carries no *)
(* trailing zero while e > 0), so equal numbers have equal records; binary *)
(* rounding of float64 is below the resolution of the model.               *)
(***************************************************************************)
EXTENDS Integers, Sequences, FiniteSets, TLC

VARIABLES
    file,    \* the lines of ./steel_routes.csv (lines 255-257)
    cache,   \* the memoised result of load_data (line 253): <<>> or one entry
    raw_df,  \* the script's raw_df (line 295), NoTable before the call
    df,      \* the script's df (line 295), NoTable before the call
    pc       \* "start" before line 295, "loaded" after it, "failed" when
             \* load_data raised

vars == <<file, cache, raw_df, df, pc>>

(***************************************************************************)
(* Bounds                                                                  *)
(***************************************************************************)
MaxRows == 2

(***************************************************************************)
(* Configuration, src/app.py lines 246-250                                 *)
(***************************************************************************)
COUNTRY == <<"Country">>
PIG == <<"Pig iron produced (ttpa)">>
DRI == <<"DRI produced (ttpa)">>

ROUTE_COLS == <<PIG, DRI>>

UNIT_DIVISOR == 1000

(***************************************************************************)
(* Text helpers: str.rstrip, str.strip, str.replace, splitting on a        *)
(* delimiter                                                               *)
(***************************************************************************)
Whitespace == {" "}

RECURSIVE RStripSet(_, _)
RStripSet(t, cs) ==
    IF t = <<>> THEN t
    ELSE IF t[Len(t)] \in cs THEN RStripSet(SubSeq(t, 1, Len(t) - 1), cs)
    ELSE t

RECURSIVE LStripSet(_, _)
LStripSet(t, cs) ==
    IF t = <<>> THEN t
    ELSE IF t[1] \in cs THEN LStripSet(Tail(t), cs)
    ELSE t

\* str.rstrip() / str.strip() with no argument: whitespace
RStrip(t) == RStripSet(t, Whitespace)

Strip(t) == LStripSet(RStripSet(t, Whitespace), Whitespace)

\* str.replace(".", "", regex=False)
RemoveDots(t) == SelectSeq(t, LAMBDA c : c # ".")

RECURSIVE FirstIndex(_, _, _)
FirstIndex(t, c, i) ==
    IF i > Len(t) THEN 0
    ELSE IF t[i] = c THEN i
    ELSE FirstIndex(t, c, i + 1)

RECURSIVE Split(_, _)
Split(t, sep) ==
    LET i == FirstIndex(t, sep, 1)
    IN  IF i = 0 THEN <<t>>
        ELSE <<SubSeq(t, 1, i - 1)>> \o Split(SubSeq(t, i + 1, Len(t)), sep)

RECURSIVE Join(_, _)
Join(fields, sep) ==
    IF Len(fields) = 0 THEN <<>>
    ELSE IF Len(fields) = 1 THEN fields[1]
    ELSE fields[1] \o <<sep>> \o Join(Tail(fields), sep)

InSeq(x, s) == \E i \in 1..Len(s) : s[i] = x

IndexOf(x, s) == CHOOSE i \in 1..Len(s) : s[i] = x

(***************************************************************************)
(* Numerals                                                                *)
(***************************************************************************)
DigitSeq == <<"0", "1", "2", "3", "4", "5", "6", "7", "8", "9">>

Digits == {DigitSeq[i] : i \in 1..Len(DigitSeq)}

DigitVal(d) == IndexOf(d, DigitSeq) - 1

DigitSym(n) == DigitSeq[n + 1]

IsDigits(t) == t # <<>> /\ \A i \in 1..Len(t) : t[i] \in Digits

RECURSIVE ParseInt(_)
ParseInt(t) ==
    IF t = <<>> THEN 0
    ELSE ParseInt(SubSeq(t, 1, Len(t) - 1)) * 10 + DigitVal(t[Len(t)])

RECURSIVE IntToText(_)
IntToText(n) ==
    IF n < 10 THEN <<DigitSym(n)>>
    ELSE IntToText(n \div 10) \o <<DigitSym(n % 10)>>

RECURSIVE Pow10(_)
Pow10(k) == IF k = 0 THEN 1 ELSE 10 * Pow10(k - 1)

RECURSIVE Log10(_)
Log10(n) == IF n < 10 THEN 0 ELSE 1 + Log10(n \div 10)

(***************************************************************************)
(* Cells of a DataFrame                                                    *)
(***************************************************************************)
StrCell(s) == [t |-> "str", s |-> s]

IntCell(v) == [t |-> "int", v |-> v]

RECURSIVE FloatCell(_, _)
FloatCell(m, e) ==
    IF e > 0 /\ m % 10 = 0 THEN FloatCell(m \div 10, e - 1)
    ELSE [t |-> "float", m |-> m, e |-> e]

INF == [t |-> "inf"]

NAN == [t |-> "nan"]

NA == [t |-> "NA"]

FAIL == [t |-> "fail"]

IsMissing(c) == c \in {NAN, NA}

ToFloat(c) == IF c.t = "int" THEN FloatCell(c.v, 0) ELSE c


\* repr of a float64, as astype(str) writes it: "40.0", "12.5", "0.1"
RECURSIVE PadLeft(_, _)
PadLeft(t, n) == IF Len(t) >= n THEN t ELSE PadLeft(<<"0">> \o t, n)

FloatRepr(c) ==
    IF c.e = 0 THEN IntToText(c.m) \o <<".", "0">>
    ELSE IntToText(c.m \div Pow10(c.e)) \o <<".">>
         \o PadLeft(IntToText(c.m % Pow10(c.e)), c.e)

\* Texts the numeric parser reads as infinity or NaN (matched as a whole,
\* without trimming), among the words of the alphabet.
InfTexts == {<<"inf">>, <<"Infinity">>}

NanTexts == {<<"nan">>, <<"NaN">>}

\* Default na_values of read_csv, among the words of the alphabet.
NaValues == {<<>>, <<"nan">>, <<"NaN">>, <<"NA">>, <<"null">>}

\* The numeric parser shared by read_csv's type inference and pd.to_numeric:
\* surrounding whitespace is skipped, digits give an int, digits with one
\* decimal point give a float, anything else fails.
ParseNumeric(x) ==
    LET s == Strip(x)
        dot == FirstIndex(s, ".", 1)
        ip == SubSeq(s, 1, dot - 1)
        fp == SubSeq(s, dot + 1, Len(s))
        digs(u) == \A i \in 1..Len(u) : u[i] \in Digits
    IN  IF IsDigits(s) THEN IntCell(ParseInt(s))
        ELSE IF dot > 0 /\ digs(ip) /\ digs(fp) /\ ip \o fp # <<>>
             THEN FloatCell(ParseInt(ip \o fp), Len(fp))
        ELSE IF x \in InfTexts THEN INF
        ELSE IF x \in NanTexts THEN NAN
        ELSE FAIL

\* Series.astype(str), cell by cell
AsTypeStr(c) ==
    CASE c.t = "str" -> c.s
      [] c.t = "int" -> IntToText(c.v)
      [] c.t = "float" -> FloatRepr(c)
      [] c.t = "inf" -> <<"inf">>
      [] c.t = "nan" -> <<"nan">>
      [] c.t = "NA" -> <<"<NA>">>

\* pd.to_numeric(errors="coerce"), cell by cell
ToNumericCoerce(x) ==
    LET p == ParseNumeric(x) IN IF p = FAIL THEN NAN ELSE p

\* True division of a numeric cell by UNIT_DIVISOR (a power of ten)
Divide(c) ==
    CASE c.t = "int" -> FloatCell(c.v, Log10(UNIT_DIVISOR))
      [] c.t = "float" -> FloatCell(c.m, c.e + Log10(UNIT_DIVISOR))
      [] OTHER -> c

(***************************************************************************)
(* Tables: cols is the column index, rows the rows in order, each with its *)
(* index label idx and its cells in column order.                          *)
(***************************************************************************)
NoTable == [cols |-> <<>>, rows |-> <<>>]

Cell(tbl, row, col) == row.cells[IndexOf(col, tbl.cols)]

\* line 269, one cell: df.replace("unknown", pd.NA)
ReplaceCell(c) == IF c = StrCell(<<"unknown">>) THEN NA ELSE c

\* lines 278-284, one cell
CoerceCell(c) == ToNumericCoerce(RemoveDots(Strip(AsTypeStr(c))))

\* The cell rewrites of the cleaning stages, by name
CellOp(op, c) ==
    CASE op = "replace" -> ReplaceCell(c)
      [] op = "coerce" -> CoerceCell(c)
      [] op = "divide" -> Divide(c)

\* Rewrite every cell of the columns in cs with the rewrite op
MapCols(tbl, cs, op) ==
    [tbl EXCEPT !.rows =
        [i \in 1..Len(tbl.rows) |->
            [tbl.rows[i] EXCEPT !.cells =
                [j \in 1..Len(tbl.cols) |->
                    IF tbl.cols[j] \in cs THEN CellOp(op, tbl.rows[i].cells[j])
                    ELSE tbl.rows[i].cells[j]]]]]

(***************************************************************************)
(* load_data, lines 263-264: line repair                                   *)
(***************************************************************************)
CleanLine(line) == RStripSet(RStrip(line), {";"})

CleanText(lines) == [i \in 1..Len(lines) |-> CleanLine(lines[i])]

(***************************************************************************)
(* load_data, line 266: pd.read_csv(sep=",", engine="python")              *)
(***************************************************************************)
\* A line the parser skips as blank: a single field of whitespace only
IsEmptyLine(fields) == Len(fields) = 1 /\ Strip(fields[1]) = <<>>

\* The fields of the non-blank lines: the header, then the records.  No
\* non-blank line is an EmptyDataError, a record longer than the header a
\* ParserError (a longer first record, which pandas would read as carrying
\* an index column, does not occur in the files modelled).
TextTable(lines) ==
    LET split == [i \in 1..Len(lines) |-> Split(lines[i], ",")]
        kept == SelectSeq(split, LAMBDA f : ~IsEmptyLine(f))
    IN  IF kept = <<>> THEN [ok |-> FALSE, header |-> <<>>, body |-> <<>>]
        ELSE [ok |-> \A i \in 2..Len(kept) : Len(kept[i]) <= Len(kept[1]),
              header |-> kept[1], body |-> Tail(kept)]

\* Type inference of one column from its field texts
InferColumn(texts) ==
    LET n == Len(texts)
        isna(i) == texts[i] \in NaValues
        num(i) == ParseNumeric(texts[i])
    IN  IF \A i \in 1..n : isna(i) \/ num(i) # FAIL
        THEN IF \A i \in 1..n : ~isna(i) /\ num(i).t = "int"
             THEN [i \in 1..n |-> num(i)]
             ELSE [i \in 1..n |-> IF isna(i) THEN NAN ELSE ToFloat(num(i))]
        ELSE [i \in 1..n |-> IF isna(i) THEN NAN ELSE StrCell(texts[i])]

ReadCsv(lines) ==
    LET tt == TextTable(lines)
        n == Len(tt.body)
        field(i, j) == IF j <= Len(tt.body[i]) THEN tt.body[i][j] ELSE <<>>
        column == [j \in 1..Len(tt.header) |->
                      InferColumn([i \in 1..n |-> field(i, j)])]
    IN  IF ~tt.ok THEN [ok |-> FALSE, table |-> NoTable]
        ELSE [ok |-> TRUE,
              table |-> [cols |-> tt.header,
                         rows |-> [i \in 1..n |->
                             [idx |-> i - 1,
                              cells |-> [j \in 1..Len(tt.header) |->
                                            column[j][i]]]]]]

(***************************************************************************)
(* load_data, lines 269-290: the cleaning stages                           *)
(***************************************************************************)
\* line 269: df.replace("unknown", pd.NA), over every column
Replace(tbl) ==
    MapCols(tbl, {tbl.cols[j] : j \in 1..Len(tbl.cols)}, "replace")

\* lines 271-272
expected == <<COUNTRY>> \o ROUTE_COLS

present(tbl) == SelectSeq(expected, LAMBDA c : InSeq(c, tbl.cols))

\* Indexing with a list of column labels, df[labels]
Take(tbl, labels) ==
    [cols |-> labels,
     rows |-> [i \in 1..Len(tbl.rows) |->
                  [tbl.rows[i] EXCEPT !.cells =
                      [j \in 1..Len(labels) |->
                          Cell(tbl, tbl.rows[i], labels[j])]]]]

\* mutant of Project: keeps the order of the source header
ProjectSourceOrder(tbl) ==
    Take(tbl, SelectSeq(tbl.cols, LAMBDA c : InSeq(c, expected)))

\* line 273: df = df[present]
Project(tbl) == Take(tbl, present(tbl))

\* lines 289: the route columns that are there
numeric_cols(tbl) == {c \in {ROUTE_COLS[k] : k \in 1..Len(ROUTE_COLS)} :
                         InSeq(c, tbl.cols)}

\* lines 275-284
Coerce(tbl) == MapCols(tbl, numeric_cols(tbl), "coerce")

\* mutant of NeGlobal: a missing Country compares as not kept
NeGlobalNaFalse(c) == ~IsMissing(c) /\ c # StrCell(<<"Global">>)

\* line 287: df["Country"] != "Global", one cell; a missing value compares
\* unequal
NeGlobal(c) == c # StrCell(<<"Global">>)

\* lines 286-287
DropGlobal(tbl) ==
    IF /\ InSeq(COUNTRY, tbl.cols)
       /\ \E i \in 1..Len(tbl.rows) :
             AsTypeStr(Cell(tbl, tbl.rows[i], COUNTRY)) = <<"Global">>
    THEN [tbl EXCEPT !.rows =
             SelectSeq(tbl.rows, LAMBDA r : NeGlobal(Cell(tbl, r, COUNTRY)))]
    ELSE tbl

\* line 290: df[numeric_cols] = df[numeric_cols] / UNIT_DIVISOR
Rescale(tbl) == MapCols(tbl, numeric_cols(tbl), "divide")

\* lines 269-290
Normalize(tbl) == Rescale(DropGlobal(Coerce(Project(Replace(tbl)))))

\* mutant of load_data: the replacement of line 269 reaches the raw table
load_data_shared(f) ==
    LET parsed == ReadCsv(CleanText(f))
    IN  IF ~parsed.ok THEN [ok |-> FALSE, raw |-> NoTable, df |-> NoTable]
        ELSE [ok |-> TRUE, raw |-> Replace(parsed.table),
              df |-> Normalize(parsed.table)]

\* lines 254-292, without the memoisation: the pair computed from the lines
\* of the file, or the failure of read_csv
load_data(f) ==
    LET parsed == ReadCsv(CleanText(f))
    IN  IF ~parsed.ok THEN [ok |-> FALSE, raw |-> NoTable, df |-> NoTable]
        ELSE [ok |-> TRUE, raw |-> parsed.table,
              df |-> Normalize(parsed.table)]

(***************************************************************************)
(* Contents of ./steel_routes.csv (lines 255-257): a header laid out in    *)
(* one of several ways, then one to MaxRows records drawn from a sample    *)
(* that covers grouped numerals, sentinels in several spellings, missing   *)
(* and non-finite fields, the aggregate row and trailing export artifacts. *)
(***************************************************************************)
PLANT == <<"Plant">>

HeaderName(key) ==
    CASE key = "country" -> COUNTRY
      [] key = "pig" -> PIG
      [] key = "dri" -> DRI
      [] key = "plant" -> PLANT

Layouts ==
    { [keys |-> <<"country", "pig", "dri">>, sep |-> ",", htail |-> <<>>],
      [keys |-> <<"country", "pig", "dri">>, sep |-> ",", htail |-> <<";">>],
      [keys |-> <<"dri", "plant", "country">>, sep |-> ",", htail |-> <<>>],
      [keys |-> <<"country", "pig", "dri">>, sep |-> ";", htail |-> <<>>],
      [keys |-> <<"country">>, sep |-> ",", htail |-> <<>>],
      [keys |-> <<"pig", "dri">>, sep |-> ",", htail |-> <<>>] }

SampleRows ==
    { [country |-> <<"Global">>,
       pig |-> <<"1", ".", "0", "0", "0", ".", "0", "0", "0">>,
       dri |-> <<"5", "0", "0", ".", "0", "0", "0">>,
       plant |-> <<"Mill">>, tail |-> <<>>],
      [country |-> <<"Brazil">>,
       pig |-> <<"4", "0", ".", "0", "0", "0">>,
       dri |-> <<"1", "0", ".", "0", "0", "0">>,
       plant |-> <<"Mill">>, tail |-> <<>>],
      [country |-> <<"Brazil">>,
       pig |-> <<"4", "0", ".", "0", "0", "0">>,
       dri |-> <<"1", "0", ".", "0", "0", "0">>,
       plant |-> <<"Mill">>, tail |-> <<";">>],
      [country |-> <<" ", "Global">>,
       pig |-> <<"1", ".", "2", "3", "4", ".", "5", "6", "7">>,
       dri |-> <<"1", "2">>,
       plant |-> <<"Mill">>, tail |-> <<>>],
      [country |-> <<"India">>,
       pig |-> <<"1", ".", "2", "3", "4", ".", "5", "6", "7">>,
       dri |-> <<"unknown">>,
       plant |-> <<"unknown">>, tail |-> <<" ", ";">>],
      [country |-> <<"Unknown">>,
       pig |-> <<" ", "unknown">>,
       dri |-> <<"UNKNOWN">>,
       plant |-> <<"Mill">>, tail |-> <<";", ";">>],
      [country |-> <<"unknown">>,
       pig |-> <<"inf">>,
       dri |-> <<"nan">>,
       plant |-> <<"Mill">>, tail |-> <<>>],
      [country |-> <<>>,
       pig |-> <<>>,
       dri |-> <<"tbd">>,
       plant |-> <<"Mill">>, tail |-> <<" ">>],
      [country |-> <<"India">>,
       pig |-> <<"1", "2">>,
       dri |-> <<"Infinity">>,
       plant |-> <<"unknown">>, tail |-> <<>>],
      [country |-> <<"China">>,
       pig |-> <<"7", "0", "0">>,
       dri |-> <<>>,
       plant |-> <<"Mill">>, tail |-> <<>>] }

RenderLine(layout, row) ==
    Join([j \in 1..Len(layout.keys) |-> row[layout.keys[j]]], layout.sep)
        \o row.tail

RenderFile(layout, rows) ==
    <<Join([j \in 1..Len(layout.keys) |-> HeaderName(layout.keys[j])],
           layout.sep) \o layout.htail>>
        \o [i \in 1..Len(rows) |-> RenderLine(layout, rows[i])]

RowSeqs == UNION {[1..n -> SampleRows] : n \in 1..MaxRows}

\* The rendered files, and the empty file (read_csv raises EmptyDataError)
Files == {RenderFile(l, rs) : l \in Layouts, rs \in RowSeqs} \cup {<<>>}

\* The files the source is rewritten among while the process runs
EditedFiles ==
    {RenderFile(l, <<r>>) :
        l \in {x \in Layouts : x.keys = <<"country", "pig", "dri">>
                                /\ x.sep = "," /\ x.htail = <<>>},
        r \in SampleRows}

(***************************************************************************)
(* The process: the script body runs top to bottom on every rerun and      *)
(* calls load_data() at line 295; @st.cache_data (line 253) keeps the pair *)
(* of the first call, keyed by the function and its (empty) arguments.     *)
(* cache is <<>> or holds the one memoised entry.                          *)
(***************************************************************************)
TypeOK ==
    /\ pc \in {"start", "loaded", "failed"}
    /\ Len(cache) \in {0, 1}

Init ==
    /\ file \in Files
    /\ cache = <<>>
    /\ raw_df = NoTable
    /\ df = NoTable
    /\ pc = "start"

\* line 295 on a cache miss: the body of load_data runs on the file as it is
\* now and its pair is memoised.  A failure of read_csv propagates: nothing
\* is stored and the script stops.
LoadDataMiss ==
    /\ pc = "start"
    /\ cache = <<>>
    /\ LET r == load_data(file)
       IN  IF r.ok
           THEN /\ cache' = <<r>>
                /\ raw_df' = r.raw
                /\ df' = r.df
                /\ pc' = "loaded"
           ELSE /\ pc' = "failed"
                /\ UNCHANGED <<cache, raw_df, df>>
    /\ UNCHANGED file

\* line 295 on a cache hit: the memoised pair is returned, the file is not
\* read
LoadDataHit ==
    /\ pc = "start"
    /\ cache # <<>>
    /\ raw_df' = cache[1].raw
    /\ df' = cache[1].df
    /\ pc' = "loaded"
    /\ UNCHANGED <<file, cache>>

\* A widget interaction (lines 237, 348, 439) reruns the script from the top,
\* also after a run that stopped on an exception
Rerun ==
    /\ pc \in {"loaded", "failed"}
    /\ pc' = "start"
    /\ raw_df' = NoTable
    /\ df' = NoTable
    /\ UNCHANGED <<file, cache>>

\* The source file is rewritten while the process lives
WriteFile ==
    /\ \E f \in EditedFiles : f # file /\ file' = f
    /\ UNCHANGED <<cache, raw_df, df, pc>>

Next == LoadDataMiss \/ LoadDataHit \/ Rerun

Spec == Init /\ [][Next]_vars

InitEdited ==
    /\ file \in EditedFiles
    /\ cache = <<>>
    /\ raw_df = NoTable
    /\ df = NoTable
    /\ pc = "start"

NextEdited == Next \/ WriteFile

SpecEdited == InitEdited /\ [][NextEdited]_vars

(***************************************************************************)
(* Properties                                                              *)
(***************************************************************************)
Loaded == pc = "loaded"

\* The field texts load_data parses from the file as it is now
Src == TextTable(CleanText(file))

\* The source text of the cell of column col in the row labelled idx
SrcText(idx, col) == Src.body[idx + 1][IndexOf(col, Src.header)]

Rows(tbl) == {tbl.rows[i] : i \in 1..Len(tbl.rows)}

Cols(tbl) == {tbl.cols[j] : j \in 1..Len(tbl.cols)}

\* C1: the normalized table holds no row whose Country, trimmed of leading
\* and trailing whitespace, is "Global".
C1_NoGlobalAfterTrim ==
    Loaded /\ InSeq(COUNTRY, df.cols) =>
        \A r \in Rows(df) :
            LET c == Cell(df, r, COUNTRY)
            IN  c.t = "str" => Strip(c.s) # <<"Global">>

\* A digit string grouped by full stops: one to three digits, then one or
\* more groups of a full stop and three digits
IsGrouped(txt) ==
    LET parts == Split(txt, ".")
    IN  /\ Len(parts) >= 2
        /\ IsDigits(parts[1]) /\ Len(parts[1]) <= 3
        /\ \A k \in 2..Len(parts) : IsDigits(parts[k]) /\ Len(parts[k]) = 3

ScenarioA ==
    << <<"Country", ",", "Pig iron produced (ttpa)", ",",
         "DRI produced (ttpa)">>,
       <<"Global", ",", "1", ".", "0", "0", "0", ".", "0", "0", "0", ",",
         "5", "0", "0", ".", "0", "0", "0">>,
       <<"Brazil", ",", "4", "0", ".", "0", "0", "0", ",",
         "1", "0", ".", "0", "0", "0">> >>

\* C2: every route field written as a grouped digit string is normalized to
\* the integer without its full stops, divided by 1000, whatever else its
\* column holds; Scenario A yields the single row Brazil, 40.0, 10.0.
C2_GroupedNumeralScaled ==
    Loaded =>
        /\ \A r \in Rows(df) : \A c \in numeric_cols(df) :
              IsGrouped(SrcText(r.idx, c)) =>
                  Cell(df, r, c) =
                      FloatCell(ParseInt(RemoveDots(SrcText(r.idx, c))),
                                Log10(1000))
        /\ file = ScenarioA =>
              /\ Len(df.rows) = 1
              /\ df.rows[1].cells =
                    <<StrCell(<<"Brazil">>), FloatCell(40, 0), FloatCell(10, 0)>>

\* C3: every invocation of load_data returns the pair the uncached pipeline
\* computes from the file as it is at that invocation.
C3_MemoNotObservable ==
    [][pc = "start" /\ pc' = "loaded" =>
          /\ raw_df' = load_data(file).raw
          /\ df' = load_data(file).df]_vars

LowerSym(x) == IF x \in {"Unknown", "UNKNOWN"} THEN "unknown" ELSE x

Lower(txt) == [i \in 1..Len(txt) |-> LowerSym(txt[i])]

\* C4: in every column, a field whose trimmed text is "unknown" in any
\* letter case is the missing-value marker in the normalized table.
C4_UnknownIsMissing ==
    Loaded =>
        \A r \in Rows(df) : \A c \in Cols(df) :
            Lower(Strip(SrcText(r.idx, c))) = <<"unknown">> =>
                IsMissing(Cell(df, r, c))

\* C5: load_data does not raise on any route field text and every route
\* cell of the normalized table is a finite number or the missing marker.
C5_CoercionTotalFinite ==
    /\ Src.ok => pc # "failed"
    /\ Loaded =>
          \A r \in Rows(df) : \A c \in numeric_cols(df) :
              Cell(df, r, c).t = "float" \/ IsMissing(Cell(df, r, c))

\* C6: when the cleaned text parses into no more than one column, load_data
\* fails and returns no pair.
C6_SingleColumnFails ==
    Src.ok /\ Len(Src.header) <= 1 => ~Loaded

\* C7: the columns of the normalized table are the names of the expected
\* schema present in the source header, in the schema's order, and
\* load_data succeeds whichever of them are absent.
C7_ProjectionCanonical ==
    /\ Src.ok /\ pc # "start" => Loaded
    /\ Loaded =>
          /\ Cols(df) = {c \in Cols([cols |-> expected]) : InSeq(c, Src.header)}
          /\ \A i, j \in 1..Len(df.cols) :
                i < j => IndexOf(df.cols[i], expected)
                            < IndexOf(df.cols[j], expected)

C7_Witness ==
    /\ Loaded
    /\ Src.header = <<DRI, PLANT, COUNTRY>>
    /\ df.cols = <<COUNTRY, DRI>>

AppendSemi(f, i) == [f EXCEPT ![i] = @ \o <<";">>]

\* C8: a line followed by ";" cleans to the same text as the line itself,
\* so the two files yield the same pair.
C8_TrailingSemicolonIgnored ==
    Loaded =>
        \A i \in 1..Len(file) :
            /\ CleanLine(file[i] \o <<";">>) = CleanLine(file[i])
            /\ load_data(AppendSemi(file, i)).raw = raw_df
            /\ load_data(AppendSemi(file, i)).df = df

\* A raw cell holds what read_csv made of its field text, unscaled
RawCellIs(c, txt) ==
    CASE c.t = "str" -> c.s = txt
      [] c.t = "nan" -> txt \in NaValues
      [] OTHER -> ToFloat(c) = ToFloat(ParseNumeric(txt))

\* C9: the raw table returned is the table as parsed: the source header,
\* one row per record, every cell as read, untouched by the later stages.
C9_RawUntouched ==
    Loaded =>
        /\ raw_df.cols = Src.header
        /\ Len(raw_df.rows) = Len(Src.body)
        /\ \A i \in 1..Len(raw_df.rows) :
              /\ raw_df.rows[i].idx = i - 1
              /\ \A j \in 1..Len(raw_df.cols) :
                    RawCellIs(raw_df.rows[i].cells[j], Src.body[i][j])

C9_Witness ==
    /\ Loaded
    /\ InSeq(PLANT, raw_df.cols)
    /\ \E r \in Rows(raw_df) :
          /\ Cell(raw_df, r, PLANT) = StrCell(<<"unknown">>)
          /\ Cell(raw_df, r, DRI) = StrCell(<<"unknown">>)
    /\ \E r \in Rows(raw_df) :
          /\ Cell(raw_df, r, COUNTRY) = StrCell(<<"Global">>)
          /\ Cell(raw_df, r, DRI) =
                StrCell(<<"5", "0", "0", ".", "0", "0", "0">>)
    /\ Len(df.rows) < Len(raw_df.rows)

IdxSeq(rows) == [i \in 1..Len(rows) |-> rows[i].idx]

IsGlobalRow(tbl, r) ==
    InSeq(COUNTRY, tbl.cols) /\ Cell(tbl, r, COUNTRY) = StrCell(<<"Global">>)

\* C10: the rows of the normalized table are the rows of the raw table
\* whose Country is not exactly "Global", in the same order.
C10_OnlyGlobalRemoved ==
    Loaded =>
        IdxSeq(df.rows) =
            IdxSeq(SelectSeq(raw_df.rows,
                             LAMBDA r : ~IsGlobalRow(raw_df, r)))

C10_Witness ==
    /\ Loaded
    /\ \E r \in Rows(raw_df) : IsGlobalRow(raw_df, r)
    /\ \E r \in Rows(df) : IsMissing(Cell(df, r, COUNTRY))
    /\ Len(df.rows) = Len(raw_df.rows) - 1
==========================================================================
